---- MODULE Spec2Model ----
(***************************************************************************)
(* A model of the dndrules library: the dice-expression parser and         *)
(* evaluator (dice.py), the d20 check and contest resolver (rules.py),     *)
(* the ability-score helpers (abilities.py) and the character maths        *)
(* (character.py).                                                         *)
(*                                                                         *)
(* Strings are sequences of one-character strings.  The injected random    *)
(* source is a periodic stream of entropy values together with the number  *)
(* of draws taken from it so far; randint(lo, hi) maps the next entropy    *)
(* value into lo..hi and advances the position by one.                     *)
(*                                                                         *)
(* A behaviour fixes the caller's arguments and random stream in Init and  *)
(* then applies the library's operations to them, each call leaving its    *)
(* outcome in `last`.  Every call is made with the caller's own rng; the   *)
(* fresh random.Random() a call creates when it is given none is not       *)
(* modelled.                                                               *)
(***************************************************************************)
EXTENDS Integers, Sequences, FiniteSets, TLC

VARIABLES
    stream,   \* the period of the injected random source
    pos,      \* number of draws consumed from the random source so far
    input,    \* the caller's arguments, fixed for the behaviour
    last      \* the last call: operation, outcome, returned value, rng span

vars == <<stream, pos, input, last>>

----------------------------------------------------------------------------
(* Bounds of the model *)

\* longest dice expression enumerated exhaustively
MaxLen == 3
\* period of the random stream
StreamLen == 3
\* entropy values per draw: 0..MaxEntropy-1
MaxEntropy == 2
\* the caller stops drawing once this many draws were consumed
MaxPos == 3
\* modifiers range over -MaxMod..MaxMod
MaxMod == 1
\* difficulty classes range over 0..MaxDC
MaxDC == 3
\* ability scores range over (MIN_SCORE - ScoreMargin)..(MAX_SCORE + ScoreMargin)
ScoreMargin == 3
\* character levels range over (MIN_LEVEL - LevelMargin)..(MAX_LEVEL + LevelMargin)
LevelMargin == 2

----------------------------------------------------------------------------
(* Generic helpers *)

RECURSIVE SumSeq(_)
SumSeq(s) == IF s = <<>> THEN 0 ELSE Head(s) + SumSeq(Tail(s))

Max2(a, b) == IF a >= b THEN a ELSE b

Min2(a, b) == IF a <= b THEN a ELSE b

\* str.replace(c, ""): every occurrence of the character c removed
RECURSIVE Remove(_, _)
Remove(s, c) ==
    IF s = <<>> THEN <<>>
    ELSE IF Head(s) = c THEN Remove(Tail(s), c)
    ELSE <<Head(s)>> \o Remove(Tail(s), c)

----------------------------------------------------------------------------
(* Characters and strings *)

Digits == {"0", "1", "2", "3", "4", "5", "6", "7", "8", "9"}

Signs == {"+", "-"}

DigitVal(c) ==
    CASE c = "0" -> 0 [] c = "1" -> 1 [] c = "2" -> 2 [] c = "3" -> 3
      [] c = "4" -> 4 [] c = "5" -> 5 [] c = "6" -> 6 [] c = "7" -> 7
      [] c = "8" -> 8 [] c = "9" -> 9

\* the ASCII upper-case letters and, at the same index, their lower-case forms
UpperLetters ==
    << "A", "B", "C", "D", "E", "F", "G", "H", "I", "J", "K", "L", "M",
       "N", "O", "P", "Q", "R", "S", "T", "U", "V", "W", "X", "Y", "Z" >>

LowerLetters ==
    << "a", "b", "c", "d", "e", "f", "g", "h", "i", "j", "k", "l", "m",
       "n", "o", "p", "q", "r", "s", "t", "u", "v", "w", "x", "y", "z" >>

\* str.lower() on one character: ASCII letters are folded, anything else is kept
LowerChar(c) ==
    IF c \in {"A", "B", "C", "D", "E", "F", "G", "H", "I", "J", "K", "L", "M",
              "N", "O", "P", "Q", "R", "S", "T", "U", "V", "W", "X", "Y", "Z"}
    THEN LowerLetters[CHOOSE i \in DOMAIN UpperLetters : UpperLetters[i] = c]
    ELSE c

\* str.lower()
Lower(s) == [i \in 1..Len(s) |-> LowerChar(s[i])]

\* str.strip(): leading and trailing blanks removed
RECURSIVE Strip(_)
Strip(s) ==
    IF s = <<>> THEN s
    ELSE IF Head(s) = " " THEN Strip(Tail(s))
    ELSE IF s[Len(s)] = " " THEN Strip(SubSeq(s, 1, Len(s) - 1))
    ELSE s

\* int(s) succeeds on a non-empty run of decimal digits (the tokens hold no
\* sign, blank or underscore by the time int() sees them)
IsInt(s) == s # <<>> /\ \A i \in 1..Len(s) : s[i] \in Digits

RECURSIVE IntOf(_)
IntOf(s) ==
    IF s = <<>> THEN 0
    ELSE 10 * IntOf(SubSeq(s, 1, Len(s) - 1)) + DigitVal(s[Len(s)])

\* index of the first "d" of s, 0 when there is none
RECURSIVE FirstD(_, _)
FirstD(s, i) ==
    IF i > Len(s) THEN 0
    ELSE IF s[i] = "d" THEN i
    ELSE FirstD(s, i + 1)

----------------------------------------------------------------------------
(* dice.py: the parser *)

ParseError == [ok |-> FALSE]

\* end of the maximal run of non-sign characters starting at i (i-1: empty)
RECURSIVE RunEnd(_, _)
RunEnd(s, i) ==
    IF i > Len(s) \/ s[i] \in Signs THEN i - 1 ELSE RunEnd(s, i + 1)

\* mutant: the pattern [^+-]+, the tokens losing their sign
RECURSIVE FindAllUnsigned(_, _)
FindAllUnsigned(s, i) ==
    IF i > Len(s) THEN <<>>
    ELSE LET end == RunEnd(s, i)
         IN  IF end >= i
             THEN <<SubSeq(s, i, end)>> \o FindAllUnsigned(s, end + 1)
             ELSE FindAllUnsigned(s, i + 1)

\* _TOKEN_RE.findall(s) from index i: [+-]?[^+-]+ matched left to right; a
\* position where the pattern does not match is skipped
RECURSIVE FindAll(_, _)
FindAll(s, i) ==
    IF i > Len(s) THEN <<>>
    ELSE LET first == IF s[i] \in Signs THEN i + 1 ELSE i
             end   == RunEnd(s, first)
         IN  IF end >= first
             THEN <<SubSeq(s, i, end)>> \o FindAll(s, end + 1)
             ELSE FindAll(s, i + 1)

\* mutant: count = int(count_part or 1) or 1, a zero count read as one die
ParseCountZeroAsOne(count_part) ==
    IF count_part = <<>> \/ IntOf(count_part) = 0 THEN 1 ELSE IntOf(count_part)

\* count = int(count_part) if count_part else 1
ParseCount(count_part) ==
    IF count_part = <<>> THEN 1 ELSE IntOf(count_part)

\* DiceTerm.__post_init__
DiceTermValid(count, size, sign) ==
    /\ ~(count < 0)
    /\ ~(size <= 0)
    /\ sign \in {1, -1}

_parse_token(tok) ==
    LET stripped == Strip(tok)
    IN  IF stripped = <<>> THEN ParseError
        ELSE
        LET sign == IF stripped[1] = "-" THEN -1 ELSE 1
            body == IF stripped[1] \in Signs THEN Tail(stripped) ELSE stripped
            low  == Lower(body)
            d    == FirstD(low, 1)
        IN  IF d > 0
            THEN LET count_part == SubSeq(low, 1, d - 1)
                     size_part  == SubSeq(low, d + 1, Len(low))
                 IN  IF (count_part # <<>> /\ ~IsInt(count_part)) \/ ~IsInt(size_part)
                     THEN ParseError
                     ELSE IF ~DiceTermValid(ParseCount(count_part), IntOf(size_part), sign)
                     THEN ParseError
                     ELSE [ok |-> TRUE, kind |-> "dice",
                           term |-> [count |-> ParseCount(count_part),
                                     size |-> IntOf(size_part), sign |-> sign]]
            ELSE IF body = <<>> \/ ~IsInt(body) THEN ParseError
            ELSE [ok |-> TRUE, kind |-> "modifier", value |-> IntOf(body) * sign]

\* the dice terms (kind "dice") or modifier values (kind "modifier") of the
\* parsed tokens, in encounter order
RECURSIVE Collect(_, _)
Collect(parsed, kind) ==
    IF parsed = <<>> THEN <<>>
    ELSE LET rest == Collect(Tail(parsed), kind)
         IN  IF Head(parsed).kind # kind THEN rest
             ELSE IF kind = "dice" THEN <<Head(parsed).term>> \o rest
             ELSE <<Head(parsed).value>> \o rest

parse_expression(expr) ==
    LET s == Remove(expr, " ")
    IN  IF s = <<>> THEN ParseError
        ELSE
        LET tokens == FindAll(s, 1)
            parsed == [i \in 1..Len(tokens) |-> _parse_token(tokens[i])]
        IN  IF \E i \in 1..Len(parsed) : ~parsed[i].ok THEN ParseError
            ELSE LET dice_terms == Collect(parsed, "dice")
                     modifiers  == Collect(parsed, "modifier")
                 IN  IF dice_terms = <<>> /\ modifiers = <<>> THEN ParseError
                     ELSE [ok |-> TRUE, dice |-> dice_terms, modifiers |-> modifiers]

----------------------------------------------------------------------------
(* The injected random source *)

\* the entropy value the draw number p + 1 of the stream yields
Draw(strm, p) == strm[(p % Len(strm)) + 1]

\* rng.randint(lo, hi) on entropy value e: uniform over lo..hi
RandInt(lo, hi, e) == lo + (e % (hi - lo + 1))

----------------------------------------------------------------------------
(* dice.py: the evaluator *)

\* tuple(rng.randint(1, size) for _ in range(count)), drawn from position p
RollDice(strm, p, count, size) ==
    [j \in 1..count |-> RandInt(1, size, Draw(strm, p + j - 1))]

\* mutant: the raw rolls recorded whatever the sign
SignedRollsRaw(rolls, sign) == rolls

\* rolls if term.sign > 0 else tuple(-r for r in rolls)
SignedRolls(rolls, sign) ==
    IF sign > 0 THEN rolls ELSE [j \in 1..Len(rolls) |-> -rolls[j]]

\* the loop of roll over parsed.dice from term i on
RECURSIVE RollLoop(_, _, _, _, _, _)
RollLoop(dice, i, strm, p, dice_results, total) ==
    IF i > Len(dice) THEN [dice_results |-> dice_results, total |-> total, pos |-> p]
    ELSE LET term == dice[i]
         IN  IF term.count = 0
             THEN RollLoop(dice, i + 1, strm, p, Append(dice_results, <<>>), total)
             ELSE LET rolls    == RollDice(strm, p, term.count, term.size)
                      subtotal == SumSeq(rolls) * term.sign
                  IN  RollLoop(dice, i + 1, strm, p + term.count,
                               Append(dice_results, SignedRolls(rolls, term.sign)),
                               total + subtotal)

\* DiceExpression.modifier_total
modifier_total(parsed) == SumSeq(parsed.modifiers)

\* roll(expr, rng=rng) with the rng at position p: the outcome and the rng's
\* position afterwards
roll(expr, strm, p) ==
    LET parsed == parse_expression(expr)
    IN  IF ~parsed.ok THEN [ok |-> FALSE, pos |-> p]
        ELSE LET r == RollLoop(parsed.dice, 1, strm, p, <<>>, modifier_total(parsed))
             IN  [ok |-> TRUE, pos |-> r.pos,
                  value |-> [total |-> r.total, dice_results |-> r.dice_results,
                             modifiers |-> parsed.modifiers]]

\* mutant: the mean of a die taken as size / 2
TermMean2NoPlusOne(term) == term.sign * term.count * term.size

\* twice the mean of one dice term: sign * count * (size + 1) / 2, doubled
TermMean2(term) == term.sign * term.count * (term.size + 1)

RECURSIVE ExpectedLoop2(_, _, _)
ExpectedLoop2(dice, i, expected2) ==
    IF i > Len(dice) THEN expected2
    ELSE ExpectedLoop2(dice, i + 1, expected2 + TermMean2(dice[i]))

\* expected_value(expr); the float it returns is a multiple of 1/2 and is
\* held as twice its value
expected_value(expr) ==
    LET parsed == parse_expression(expr)
    IN  IF ~parsed.ok THEN [ok |-> FALSE]
        ELSE [ok |-> TRUE,
              twice |-> ExpectedLoop2(parsed.dice, 1, 2 * modifier_total(parsed))]

----------------------------------------------------------------------------
(* dice.py: the d20 roller *)

D20_SIDES == 20

roll_d20(strm, p) ==
    [value |-> RandInt(1, D20_SIDES, Draw(strm, p)), pos |-> p + 1]

roll_with_advantage(strm, p) ==
    LET first  == RandInt(1, D20_SIDES, Draw(strm, p))
        second == RandInt(1, D20_SIDES, Draw(strm, p + 1))
    IN  [value |-> Max2(first, second), detail |-> <<first, second>>, pos |-> p + 2]

\* mutant: the pair returned lowest first instead of in draw order
roll_with_disadvantage_sorted(strm, p) ==
    LET first  == RandInt(1, D20_SIDES, Draw(strm, p))
        second == RandInt(1, D20_SIDES, Draw(strm, p + 1))
    IN  [value |-> Min2(first, second),
         detail |-> <<Min2(first, second), Max2(first, second)>>, pos |-> p + 2]

roll_with_disadvantage(strm, p) ==
    LET first  == RandInt(1, D20_SIDES, Draw(strm, p))
        second == RandInt(1, D20_SIDES, Draw(strm, p + 1))
    IN  [value |-> Min2(first, second), detail |-> <<first, second>>, pos |-> p + 2]

----------------------------------------------------------------------------
(* rules.py: checks and contests *)

NORMAL == <<"n", "o", "r", "m", "a", "l">>

ADVANTAGE == <<"a", "d", "v", "a", "n", "t", "a", "g", "e">>

DISADVANTAGE == <<"d", "i", "s">> \o ADVANTAGE

\* _roll_d20(state, rng=rng)
_roll_d20(state, strm, p) ==
    LET low == Lower(state)
    IN  IF low = NORMAL
        THEN LET r == roll_d20(strm, p)
             IN  [ok |-> TRUE, value |-> r.value, detail |-> <<r.value>>, pos |-> r.pos]
        ELSE IF low = ADVANTAGE
        THEN LET r == roll_with_advantage(strm, p)
             IN  [ok |-> TRUE, value |-> r.value, detail |-> r.detail, pos |-> r.pos]
        ELSE IF low = DISADVANTAGE
        THEN LET r == roll_with_disadvantage(strm, p)
             IN  [ok |-> TRUE, value |-> r.value, detail |-> r.detail, pos |-> r.pos]
        ELSE [ok |-> FALSE, pos |-> p]

\* mutant: a total equal to the dc fails
SuccessStrict(total, dc) == total > dc

\* success=total >= dc
Success(total, dc) == total >= dc

\* resolve_check(modifier, dc, advantage=advantage, rng=rng)
resolve_check(modifier, dc, advantage, strm, p) ==
    LET r == _roll_d20(advantage, strm, p)
    IN  IF ~r.ok THEN [ok |-> FALSE, pos |-> r.pos]
        ELSE LET total == r.value + modifier
             IN  [ok |-> TRUE, pos |-> r.pos,
                  value |-> [total |-> total, modifier |-> modifier, dc |-> dc,
                             success |-> Success(total, dc), natural |-> r.value,
                             roll_details |-> r.detail]]

\* mutant: a tie goes to side a
WinnerTieToA(total_a, total_b) ==
    IF total_a >= total_b THEN "a" ELSE "b"

\* the winner of a contest; "None" stands for Python's None
Winner(total_a, total_b) ==
    IF total_a > total_b THEN "a"
    ELSE IF total_b > total_a THEN "b"
    ELSE "None"

\* mutant: side b's check is resolved, and draws, before side a's
resolve_contest_b_first(modifier_a, modifier_b, advantage_a, advantage_b, strm, p) ==
    LET check_b == resolve_check(modifier_b, 0, advantage_b, strm, p)
    IN  IF ~check_b.ok THEN [ok |-> FALSE, pos |-> check_b.pos]
        ELSE
        LET check_a == resolve_check(modifier_a, 0, advantage_a, strm, check_b.pos)
        IN  IF ~check_a.ok THEN [ok |-> FALSE, pos |-> check_a.pos]
            ELSE LET total_a == check_a.value.total
                     total_b == check_b.value.total
                 IN  [ok |-> TRUE, pos |-> check_a.pos,
                      value |-> [total_a |-> total_a, total_b |-> total_b,
                                 winner |-> Winner(total_a, total_b),
                                 check_a |-> check_a.value,
                                 check_b |-> check_b.value]]

\* resolve_contest(modifier_a, modifier_b, advantage_a=.., advantage_b=.., rng=rng)
resolve_contest(modifier_a, modifier_b, advantage_a, advantage_b, strm, p) ==
    LET check_a == resolve_check(modifier_a, 0, advantage_a, strm, p)
    IN  IF ~check_a.ok THEN [ok |-> FALSE, pos |-> check_a.pos]
        ELSE
        LET check_b == resolve_check(modifier_b, 0, advantage_b, strm, check_a.pos)
        IN  IF ~check_b.ok THEN [ok |-> FALSE, pos |-> check_b.pos]
            ELSE LET total_a == check_a.value.total
                     total_b == check_b.value.total
                 IN  [ok |-> TRUE, pos |-> check_b.pos,
                      value |-> [total_a |-> total_a, total_b |-> total_b,
                                 winner |-> Winner(total_a, total_b),
                                 check_a |-> check_a.value,
                                 check_b |-> check_b.value]]

----------------------------------------------------------------------------
(* abilities.py *)

MIN_SCORE == 1

MAX_SCORE == 30

\* mutant: the quotient rounded toward zero
TruncDiv(a, b) == IF a >= 0 THEN a \div b ELSE -((-a) \div b)

\* Python's a // b for b > 0: rounds toward negative infinity
FloorDiv(a, b) == a \div b

validate_score(score) ==
    IF ~(MIN_SCORE <= score /\ score <= MAX_SCORE) THEN [ok |-> FALSE]
    ELSE [ok |-> TRUE, value |-> score]

abilities_modifier(score) ==
    LET v == validate_score(score)
    IN  IF ~v.ok THEN [ok |-> FALSE]
        ELSE [ok |-> TRUE, value |-> FloorDiv(v.value - 10, 2)]

----------------------------------------------------------------------------
(* abilities.py: AbilityScores;  character.py *)

STRENGTH == <<"s", "t", "r", "e", "n", "g", "t", "h">>

DEXTERITY == <<"d", "e", "x", "t", "e", "r", "i", "t", "y">>

CONSTITUTION == <<"c", "o", "n", "s", "t", "i", "t", "u", "t", "i", "o", "n">>

INTELLIGENCE == <<"i", "n", "t", "e", "l", "l", "i", "g", "e", "n", "c", "e">>

WISDOM == <<"w", "i", "s", "d", "o", "m">>

CHARISMA == <<"c", "h", "a", "r", "i", "s", "m", "a">>

ABILITY_NAMES == <<STRENGTH, DEXTERITY, CONSTITUTION, INTELLIGENCE, WISDOM, CHARISMA>>

AbilityNameSet == {ABILITY_NAMES[i] : i \in 1..Len(ABILITY_NAMES)}

\* AbilityScores.modifier(ability) on the scores `scores`, a function from
\* the six ability names to their values
AbilityScores_modifier(scores, ability) ==
    LET key == Lower(ability)
    IN  IF key \notin AbilityNameSet THEN [ok |-> FALSE, err |-> "KeyError"]
        ELSE LET m == abilities_modifier(scores[key])
             IN  IF ~m.ok THEN [ok |-> FALSE, err |-> "ValueError"]
                 ELSE [ok |-> TRUE, value |-> m.value]

SKILL_ABILITIES ==
    (<<"a", "c", "r", "o", "b", "a", "t", "i", "c", "s">>
           :> DEXTERITY)
    @@ (<<"a", "n", "i", "m", "a", "l", " ", "h", "a", "n", "d", "l", "i", "n", "g">>
           :> WISDOM)
    @@ (<<"a", "r", "c", "a", "n", "a">>
           :> INTELLIGENCE)
    @@ (<<"a", "t", "h", "l", "e", "t", "i", "c", "s">>
           :> STRENGTH)
    @@ (<<"d", "e", "c", "e", "p", "t", "i", "o", "n">>
           :> CHARISMA)
    @@ (<<"h", "i", "s", "t", "o", "r", "y">>
           :> INTELLIGENCE)
    @@ (<<"i", "n", "s", "i", "g", "h", "t">>
           :> WISDOM)
    @@ (<<"i", "n", "t", "i", "m", "i", "d", "a", "t", "i", "o", "n">>
           :> CHARISMA)
    @@ (<<"i", "n", "v", "e", "s", "t", "i", "g", "a", "t", "i", "o", "n">>
           :> INTELLIGENCE)
    @@ (<<"m", "e", "d", "i", "c", "i", "n", "e">>
           :> WISDOM)
    @@ (<<"n", "a", "t", "u", "r", "e">>
           :> INTELLIGENCE)
    @@ (<<"p", "e", "r", "c", "e", "p", "t", "i", "o", "n">>
           :> WISDOM)
    @@ (<<"p", "e", "r", "f", "o", "r", "m", "a", "n", "c", "e">>
           :> CHARISMA)
    @@ (<<"p", "e", "r", "s", "u", "a", "s", "i", "o", "n">>
           :> CHARISMA)
    @@ (<<"r", "e", "l", "i", "g", "i", "o", "n">>
           :> INTELLIGENCE)
    @@ (<<"s", "l", "e", "i", "g", "h", "t", " ", "o", "f", " ", "h", "a", "n", "d">>
           :> DEXTERITY)
    @@ (<<"s", "t", "e", "a", "l", "t", "h">>
           :> DEXTERITY)
    @@ (<<"s", "u", "r", "v", "i", "v", "a", "l">>
           :> WISDOM)

SkillNames == DOMAIN SKILL_ABILITIES

MIN_LEVEL == 1

MAX_LEVEL == 20

proficiency_bonus(level) ==
    IF level < MIN_LEVEL \/ level > MAX_LEVEL THEN [ok |-> FALSE]
    ELSE [ok |-> TRUE, value |-> 2 + FloorDiv(level - 1, 4)]

\* Character._normalise_sets on one set
NormaliseSet(names) == {Lower(n) : n \in names}

\* Character(name, level, abilities, proficient_skills, expertise_skills,
\* proficient_saves): the dataclass fields after __post_init__
Character(name, level, abilities, proficient_skills, expertise_skills, proficient_saves) ==
    IF name = <<>> THEN [ok |-> FALSE]
    ELSE IF ~proficiency_bonus(level).ok THEN [ok |-> FALSE]
    ELSE [ok |-> TRUE,
          value |-> [name |-> name, level |-> level, abilities |-> abilities,
                     proficient_skills |-> NormaliseSet(proficient_skills),
                     expertise_skills |-> NormaliseSet(expertise_skills),
                     proficient_saves |-> NormaliseSet(proficient_saves)]]

\* Character.ability_modifier
ability_modifier(self, ability) == AbilityScores_modifier(self.abilities, ability)

\* mutant: expertise and proficiency both added (if ... if, not if ... elif)
skill_modifier_stacking(self, skill) ==
    LET key == Lower(skill)
    IN  IF key \notin DOMAIN SKILL_ABILITIES THEN [ok |-> FALSE, err |-> "KeyError"]
        ELSE LET mod == ability_modifier(self, SKILL_ABILITIES[key]).value
                 pb  == proficiency_bonus(self.level).value
             IN  [ok |-> TRUE,
                  value |-> mod
                            + (IF key \in self.expertise_skills THEN 2 * pb ELSE 0)
                            + (IF key \in self.proficient_skills THEN pb ELSE 0)]

\* Character.skill_modifier
skill_modifier(self, skill) ==
    LET key == Lower(skill)
    IN  IF key \notin DOMAIN SKILL_ABILITIES THEN [ok |-> FALSE, err |-> "KeyError"]
        ELSE LET mod == ability_modifier(self, SKILL_ABILITIES[key]).value
                 pb  == proficiency_bonus(self.level).value
             IN  [ok |-> TRUE,
                  value |-> IF key \in self.expertise_skills THEN mod + 2 * pb
                            ELSE IF key \in self.proficient_skills THEN mod + pb
                            ELSE mod]

----------------------------------------------------------------------------
(* The caller's inputs *)

Alphabet == {"+", "-", "d", "0", "2"}

BoundedStrings == UNION {[1..n -> Alphabet] : n \in 0..MaxLen}

\* the expressions of the documentation and the tests, and a few with
\* blanks, an upper-case D and a character outside the grammar
SampleExprs ==
    { <<"2", "d", "6", "+", "3", "-", "1", "d", "4">>,
      <<"2", "d", "6", "+", "1">>,
      <<"2", "d", "4", "+", "2">>,
      <<"1", "d", "6">>,
      <<"0", "d", "6">>,
      <<"d", "2", "0">>,
      <<"+", "5">>,
      <<"2", "d", "6", "+">>,
      <<"2", "d", "6", "+", "-", "3">>,
      <<"+", "+", "5">>,
      <<"d", "2", "-", "2", "d", "2", "+", "2">>,
      <<"d", "2", "+", "0", "d", "6", "-", "d", "2">>,
      <<"2", "D", "6", " ", "-", " ", "1">>,
      <<" ", " ">>,
      <<"2", "x", "6">> }

Exprs == BoundedStrings \cup SampleExprs

Streams == [1..StreamLen -> 0..(MaxEntropy - 1)]

Mods == (-MaxMod)..MaxMod

DCs == 0..MaxDC

AdvInputs ==
    { NORMAL, ADVANTAGE, DISADVANTAGE,
      <<"N", "o", "r", "m", "a", "l">>,
      <<"A", "D", "V", "A", "N", "T", "A", "G", "E">>,
      <<"D", "i", "s", "A", "d", "v", "a", "n", "t", "a", "g", "e">>,
      <<"l", "u", "c", "k", "y">> }

Scores == (MIN_SCORE - ScoreMargin)..(MAX_SCORE + ScoreMargin)

Levels == (MIN_LEVEL - LevelMargin)..(MAX_LEVEL + LevelMargin)

\* the scores of the test suite's character, and scores with odd and
\* extreme values
TestScores ==
    [a \in AbilityNameSet |->
        CASE a = STRENGTH -> 15 [] a = DEXTERITY -> 16 [] a = CONSTITUTION -> 14
          [] a = INTELLIGENCE -> 12 [] a = WISDOM -> 10 [] a = CHARISMA -> 8]

OddScores ==
    [a \in AbilityNameSet |->
        CASE a = STRENGTH -> 1 [] a = DEXTERITY -> 9 [] a = CONSTITUTION -> 30
          [] a = INTELLIGENCE -> 7 [] a = WISDOM -> 21 [] a = CHARISMA -> 11]

Stealth == <<"s", "t", "e", "a", "l", "t", "h">>

\* skill names a character is built with, in lower and mixed case
SkillPool == {<<"S", "t", "e", "a", "l", "t", "h">>, <<"a", "c", "r", "o", "b", "a", "t", "i", "c", "s">>, <<"s", "l", "e", "i", "g", "h", "t", " ", "o", "f", " ", "h", "a", "n", "d">>}

\* skill names asked for: every known skill, three in another letter case,
\* two unknown ones
SkillInputs ==
    SkillNames
    \cup {<<"S", "T", "E", "A", "L", "T", "H">>, <<"A", "c", "r", "o", "b", "a", "t", "i", "c", "s">>, <<"S", "l", "e", "i", "g", "h", "t", " ", "O", "f", " ", "H", "a", "n", "d">>,
          <<"c", "o", "o", "k", "i", "n", "g">>, <<"d", "e", "x">>}

NameNyx == <<"N", "y", "x">>

CharacterInputs ==
    {[kind |-> "character", name |-> NameNyx, level |-> 5, abilities |-> sc,
      proficient_skills |-> ps, expertise_skills |-> es, proficient_saves |-> {DEXTERITY},
      skill |-> sk] :
         sc \in {TestScores, OddScores}, ps \in SUBSET SkillPool,
         es \in SUBSET SkillPool, sk \in SkillInputs}
    \cup {[kind |-> "character", name |-> n, level |-> l, abilities |-> TestScores,
           proficient_skills |-> ps, expertise_skills |-> es, proficient_saves |-> {},
           skill |-> Stealth] :
         n \in {NameNyx, <<>>}, l \in Levels,
         ps \in {{}, {Stealth}}, es \in {{}, {Stealth}}}

Inputs ==
    {[kind |-> "dice", expr |-> e] : e \in Exprs}
    \cup {[kind |-> "d20"]}
    \cup {[kind |-> "check", modifier |-> m, dc |-> d, advantage |-> a] :
              m \in Mods, d \in DCs, a \in AdvInputs}
    \cup {[kind |-> "contest", modifier_a |-> ma, modifier_b |-> mb,
           advantage_a |-> aa, advantage_b |-> ab] :
              ma \in Mods, mb \in Mods, aa \in AdvInputs, ab \in AdvInputs}
    \cup {[kind |-> "score", score |-> s] : s \in Scores}
    \cup {[kind |-> "level", level |-> l] : l \in Levels}
    \cup CharacterInputs

----------------------------------------------------------------------------
(* The state machine *)

NoCall == [op |-> "none", status |-> "none", value |-> <<>>, start |-> 0, end |-> 0]

\* the record a call leaves behind: r is the operation's outcome, the rng
\* stood at `start` when it was called and at `end` when it returned or raised
Called(op, r, start, end) ==
    [op |-> op,
     status |-> IF r.ok THEN "ok" ELSE "ValueError",
     value |-> IF r.ok THEN r.value ELSE <<>>,
     start |-> start, end |-> end]

\* the character maths takes no rng: its behaviours start from one stream
Init ==
    /\ input \in Inputs
    /\ stream \in IF input.kind \in {"level", "character"}
                    THEN {[i \in 1..StreamLen |-> 0]}
                    ELSE Streams
    /\ pos = 0
    /\ last = NoCall

ParseExpressionCall ==
    /\ input.kind = "dice"
    /\ LET r == parse_expression(input.expr)
       IN  last' = Called("parse_expression",
                          [ok |-> r.ok, value |-> r], pos, pos)
    /\ UNCHANGED <<stream, pos, input>>

RollCall ==
    /\ input.kind = "dice"
    /\ pos < MaxPos
    /\ LET r == roll(input.expr, stream, pos)
       IN  /\ last' = Called("roll", r, pos, r.pos)
           /\ pos' = r.pos
    /\ UNCHANGED <<stream, input>>

ExpectedValueCall ==
    /\ input.kind = "dice"
    /\ LET r == expected_value(input.expr)
       IN  last' = Called("expected_value",
                          [ok |-> r.ok, value |-> IF r.ok THEN r.twice ELSE 0], pos, pos)
    /\ UNCHANGED <<stream, pos, input>>

RollD20Call ==
    /\ input.kind = "d20"
    /\ pos < MaxPos
    /\ LET r == roll_d20(stream, pos)
       IN  /\ last' = Called("roll_d20", [ok |-> TRUE, value |-> r.value], pos, r.pos)
           /\ pos' = r.pos
    /\ UNCHANGED <<stream, input>>

RollWithAdvantageCall ==
    /\ input.kind = "d20"
    /\ pos < MaxPos
    /\ LET r == roll_with_advantage(stream, pos)
       IN  /\ last' = Called("roll_with_advantage",
                              [ok |-> TRUE, value |-> <<r.value, r.detail>>], pos, r.pos)
           /\ pos' = r.pos
    /\ UNCHANGED <<stream, input>>

RollWithDisadvantageCall ==
    /\ input.kind = "d20"
    /\ pos < MaxPos
    /\ LET r == roll_with_disadvantage(stream, pos)
       IN  /\ last' = Called("roll_with_disadvantage",
                              [ok |-> TRUE, value |-> <<r.value, r.detail>>], pos, r.pos)
           /\ pos' = r.pos
    /\ UNCHANGED <<stream, input>>

ResolveCheckCall ==
    /\ input.kind = "check"
    /\ pos < MaxPos
    /\ LET r == resolve_check(input.modifier, input.dc, input.advantage, stream, pos)
       IN  /\ last' = Called("resolve_check", r, pos, r.pos)
           /\ pos' = r.pos
    /\ UNCHANGED <<stream, input>>

ResolveContestCall ==
    /\ input.kind = "contest"
    /\ pos < MaxPos
    /\ LET r == resolve_contest(input.modifier_a, input.modifier_b,
                               input.advantage_a, input.advantage_b, stream, pos)
       IN  /\ last' = Called("resolve_contest", r, pos, r.pos)
           /\ pos' = r.pos
    /\ UNCHANGED <<stream, input>>

ValidateScoreCall ==
    /\ input.kind = "score"
    /\ last' = Called("validate_score", validate_score(input.score), pos, pos)
    /\ UNCHANGED <<stream, pos, input>>

ModifierCall ==
    /\ input.kind = "score"
    /\ last' = Called("modifier", abilities_modifier(input.score), pos, pos)
    /\ UNCHANGED <<stream, pos, input>>

ProficiencyBonusCall ==
    /\ input.kind = "level"
    /\ last' = Called("proficiency_bonus", proficiency_bonus(input.level), pos, pos)
    /\ UNCHANGED <<stream, pos, input>>

\* the character the caller's arguments construct
InputCharacter ==
    Character(input.name, input.level, input.abilities, input.proficient_skills,
              input.expertise_skills, input.proficient_saves)

CharacterCall ==
    /\ input.kind = "character"
    /\ last' = Called("Character", InputCharacter, pos, pos)
    /\ UNCHANGED <<stream, pos, input>>

SkillModifierCall ==
    /\ input.kind = "character"
    /\ InputCharacter.ok
    /\ LET r == skill_modifier(InputCharacter.value, input.skill)
       IN  last' = [op |-> "skill_modifier",
                    status |-> IF r.ok THEN "ok" ELSE r.err,
                    value |-> IF r.ok THEN r.value ELSE <<>>,
                    start |-> pos, end |-> pos]
    /\ UNCHANGED <<stream, pos, input>>

\* rng.seed(s) with the seed the rng was created from: the stream restarts
Reseed ==
    /\ pos > 0
    /\ pos' = 0
    /\ UNCHANGED <<stream, input, last>>

Next ==
    \/ ParseExpressionCall
    \/ RollCall
    \/ ExpectedValueCall
    \/ RollD20Call
    \/ RollWithAdvantageCall
    \/ RollWithDisadvantageCall
    \/ ResolveCheckCall
    \/ ResolveContestCall
    \/ ValidateScoreCall
    \/ ModifierCall
    \/ ProficiencyBonusCall
    \/ CharacterCall
    \/ SkillModifierCall
    \/ Reseed

Spec == Init /\ [][Next]_vars

----------------------------------------------------------------------------
(* Vocabulary of the properties *)

\* the d20 value the draw number p + 1 of the stream yields
D20At(strm, p) == RandInt(1, 20, Draw(strm, p))

\* the expression, blanks removed, holds a sign with no term after it
HasEmptyToken(expr) ==
    LET s == Remove(expr, " ")
    IN  \E i \in 1..Len(s) :
            s[i] \in Signs /\ (i = Len(s) \/ s[i + 1] \in Signs)

RecognisedStates == {NORMAL, ADVANTAGE, DISADVANTAGE}

\* d20 draws of a check under a recognised advantage state
DrawsOf(state) == IF Lower(state) = NORMAL THEN 1 ELSE 2

\* number of dice of the terms before term i
CountBefore(dice, i) == SumSeq([k \in 1..(i - 1) |-> dice[k].count])

RECURSIVE Flatten(_)
Flatten(ss) == IF ss = <<>> THEN <<>> ELSE Head(ss) \o Flatten(Tail(ss))

\* the text is 0dM or 0DM with M a positive decimal number
IsZeroCountTerm(expr) ==
    /\ Len(expr) >= 3
    /\ expr[1] = "0"
    /\ expr[2] \in {"d", "D"}
    /\ \A i \in 3..Len(expr) : expr[i] \in Digits
    /\ \E i \in 3..Len(expr) : expr[i] # "0"

\* the least and the greatest total a roll of the parsed expression can give
MinTotal(parsed) ==
    SumSeq([i \in 1..Len(parsed.dice) |->
               IF parsed.dice[i].sign = 1 THEN parsed.dice[i].count
               ELSE -(parsed.dice[i].count * parsed.dice[i].size)])
    + SumSeq(parsed.modifiers)

MaxTotal(parsed) ==
    SumSeq([i \in 1..Len(parsed.dice) |->
               IF parsed.dice[i].sign = 1 THEN parsed.dice[i].count * parsed.dice[i].size
               ELSE -parsed.dice[i].count])
    + SumSeq(parsed.modifiers)

----------------------------------------------------------------------------
(* Properties *)

\* C1: parse_expression, and roll and expected_value with it, fail with
\* ValueError on every expression that holds an empty token: a sign at the
\* end of the expression or a sign directly followed by another sign.
C1_EmptyTokenRejected ==
    (last.op \in {"parse_expression", "roll", "expected_value"}
        /\ HasEmptyToken(input.expr))
    => last.status = "ValueError"

\* C2: a call of roll, resolve_check or resolve_contest that raises has
\* consumed no draw from the caller's random source.
C2_NoDrawBeforeFailure ==
    (last.op \in {"roll", "resolve_check", "resolve_contest"}
        /\ last.status = "ValueError")
    => last.end = last.start

\* C3: a contest takes side a's d20 draws from the front of the stream and
\* side b's right after them, and check_a is the check side a would get
\* alone: no choice of modifier_b and advantage_b changes it.
C3_ContestDrawsAThenB ==
    (last.op = "resolve_contest" /\ last.status = "ok") =>
        LET na == DrawsOf(input.advantage_a)
            nb == DrawsOf(input.advantage_b)
        IN  /\ last.value.check_a.roll_details
                   = [j \in 1..na |-> D20At(stream, last.start + j - 1)]
            /\ last.value.check_b.roll_details
                   = [j \in 1..nb |-> D20At(stream, last.start + na + j - 1)]
            /\ last.end = last.start + na + nb
            /\ last.value.check_a
                   = resolve_check(input.modifier_a, 0, input.advantage_a,
                                  stream, last.start).value
            /\ \A mb \in Mods :
                   \A ab \in RecognisedStates :
                       resolve_contest(input.modifier_a, mb, input.advantage_a, ab,
                                      stream, last.start).value.check_a
                           = last.value.check_a

C3_Witness ==
    /\ last.op = "resolve_contest"
    /\ last.status = "ok"
    /\ Lower(input.advantage_a) = ADVANTAGE
    /\ Lower(input.advantage_b) = NORMAL
    /\ last.value.check_a.roll_details[1] # last.value.check_a.roll_details[2]
    /\ last.value.check_b.natural # last.value.check_a.roll_details[1]

\* C4: a successful roll returns one inner sequence per dice term, in parse
\* order, holding the term's raw rolls, each negated when the term's sign is
\* -1; total is the sum of all these entries plus the sum of the modifiers;
\* modifiers is the list of the modifier values in parse order.
C4_RollTotalAndBreakdown ==
    (last.op = "roll" /\ last.status = "ok") =>
        LET parsed == parse_expression(input.expr)
            dr     == last.value.dice_results
        IN  /\ Len(dr) = Len(parsed.dice)
            /\ \A i \in 1..Len(dr) :
                   /\ Len(dr[i]) = parsed.dice[i].count
                   /\ \A j \in 1..Len(dr[i]) :
                          dr[i][j] = parsed.dice[i].sign
                              * RandInt(1, parsed.dice[i].size,
                                        Draw(stream, last.start
                                                        + CountBefore(parsed.dice, i)
                                                        + j - 1))
            /\ last.value.total
                   = SumSeq(Flatten(dr)) + SumSeq(last.value.modifiers)
            /\ last.value.modifiers = parsed.modifiers

C4_Witness ==
    /\ last.op = "roll"
    /\ last.status = "ok"
    /\ Len(last.value.dice_results) = 2
    /\ last.value.dice_results[1] # <<>>
    /\ Len(last.value.dice_results[2]) = 2
    /\ last.value.dice_results[2][1] < 0
    /\ last.value.modifiers = <<2>>

\* C5: roll_with_advantage and roll_with_disadvantage each take exactly two
\* draws and return them as a pair in draw order; advantage keeps the
\* greater and disadvantage the lesser; from one stream position both
\* return the same pair, and the advantage value is >= the disadvantage one.
C5_AdvantagePair ==
    (last.op \in {"roll_with_advantage", "roll_with_disadvantage"}) =>
        LET first  == D20At(stream, last.start)
            second == D20At(stream, last.start + 1)
            adv    == roll_with_advantage(stream, last.start)
            dis    == roll_with_disadvantage(stream, last.start)
        IN  /\ last.end = last.start + 2
            /\ last.value[2] = <<first, second>>
            /\ last.op = "roll_with_advantage" =>
                   /\ last.value[1] \in {first, second}
                   /\ last.value[1] >= first /\ last.value[1] >= second
            /\ last.op = "roll_with_disadvantage" =>
                   /\ last.value[1] \in {first, second}
                   /\ last.value[1] <= first /\ last.value[1] <= second
            /\ adv.detail = dis.detail
            /\ adv.pos = dis.pos
            /\ adv.value >= dis.value

C5_Witness ==
    /\ last.op = "roll_with_disadvantage"
    /\ last.start > 0
    /\ last.value[2][1] > last.value[2][2]
    /\ last.value[1] = last.value[2][2]

\* C6: under a recognised advantage state, in any letter case, resolve_check
\* returns total = natural + modifier and success exactly when total >= dc;
\* roll_details is the one draw, equal to natural, for normal, and the two
\* draws for advantage and disadvantage, natural being their maximum resp.
\* minimum; modifier and dc are the arguments.
C6_CheckResult ==
    (last.op = "resolve_check" /\ Lower(input.advantage) \in RecognisedStates) =>
        LET low == Lower(input.advantage)
            v   == last.value
        IN  /\ last.status = "ok"
            /\ v.total = v.natural + input.modifier
            /\ v.success <=> (v.total >= input.dc)
            /\ v.modifier = input.modifier
            /\ v.dc = input.dc
            /\ low = NORMAL =>
                   v.roll_details = <<D20At(stream, last.start)>>
                       /\ v.natural = v.roll_details[1]
            /\ low # NORMAL =>
                   v.roll_details
                       = <<D20At(stream, last.start), D20At(stream, last.start + 1)>>
            /\ low = ADVANTAGE =>
                   /\ v.natural \in {v.roll_details[1], v.roll_details[2]}
                   /\ v.natural >= v.roll_details[1]
                   /\ v.natural >= v.roll_details[2]
            /\ low = DISADVANTAGE =>
                   /\ v.natural \in {v.roll_details[1], v.roll_details[2]}
                   /\ v.natural <= v.roll_details[1]
                   /\ v.natural <= v.roll_details[2]

C6_Witness ==
    /\ last.op = "resolve_check"
    /\ last.status = "ok"
    /\ input.advantage # Lower(input.advantage)
    /\ Lower(input.advantage) = DISADVANTAGE
    /\ last.value.roll_details[1] # last.value.roll_details[2]
    /\ last.value.total = input.dc
    /\ last.value.success

\* C7: the winner of a contest is "a" exactly when total_a > total_b, "b"
\* exactly when total_b > total_a and None exactly when the totals are
\* equal, the totals being those of the two embedded checks, which both
\* carry dc = 0.
C7_ContestWinner ==
    (last.op = "resolve_contest" /\ last.status = "ok") =>
        LET v == last.value
        IN  /\ v.total_a = v.check_a.total
            /\ v.total_b = v.check_b.total
            /\ v.winner \in {"a", "b", "None"}
            /\ v.winner = "a" <=> v.total_a > v.total_b
            /\ v.winner = "b" <=> v.total_b > v.total_a
            /\ v.winner = "None" <=> v.total_a = v.total_b
            /\ v.check_a.dc = 0
            /\ v.check_b.dc = 0

C7_Witness ==
    /\ last.op = "resolve_contest"
    /\ last.status = "ok"
    /\ last.value.winner = "None"
    /\ last.value.check_a.natural # last.value.check_b.natural

\* C8: a roll consumes exactly as many draws as the counts of its dice terms
\* add up to, term after term in parse order, and a term of count 0 leaves
\* an empty sequence at its position; the expression 0dM parses, and its
\* roll returns one empty sequence and total 0 and consumes no draw.
C8_ZeroCountTerm ==
    /\ (last.op = "roll" /\ last.status = "ok") =>
           LET dice == parse_expression(input.expr).dice
               dr   == last.value.dice_results
           IN  /\ last.end - last.start
                      = SumSeq([i \in 1..Len(dice) |-> dice[i].count])
               /\ \A i \in 1..Len(dice) :
                      /\ dice[i].count = 0 => dr[i] = <<>>
                      /\ \A j \in 1..dice[i].count :
                             dice[i].sign * dr[i][j]
                                 = RandInt(1, dice[i].size,
                                           Draw(stream, last.start
                                                           + CountBefore(dice, i)
                                                           + j - 1))
    /\ (last.op \in {"parse_expression", "roll"} /\ IsZeroCountTerm(input.expr)) =>
           last.status = "ok"
    /\ (last.op = "parse_expression" /\ IsZeroCountTerm(input.expr)) =>
           /\ Len(last.value.dice) = 1
           /\ last.value.dice[1].count = 0
           /\ last.value.modifiers = <<>>
    /\ (last.op = "roll" /\ IsZeroCountTerm(input.expr)) =>
           /\ last.value.dice_results = << <<>> >>
           /\ last.value.total = 0
           /\ last.end = last.start

C8_Witness ==
    /\ last.op = "roll"
    /\ last.status = "ok"
    /\ Len(last.value.dice_results) = 3
    /\ last.value.dice_results[2] = <<>>
    /\ last.value.dice_results[1] # <<>>
    /\ last.value.dice_results[3] # <<>>
    /\ last.end = last.start + 2

\* C9: twice the expected value of a valid expression is the sum over its
\* dice terms of sign * count * (size + 1) plus twice the sum of its
\* modifiers, which is the least plus the greatest total a roll can give;
\* computing it consumes no draw.
C9_ExpectedValue ==
    (last.op = "expected_value" /\ last.status = "ok") =>
        LET parsed == parse_expression(input.expr)
        IN  /\ last.value
                   = SumSeq([i \in 1..Len(parsed.dice) |->
                                parsed.dice[i].sign * parsed.dice[i].count
                                    * (parsed.dice[i].size + 1)])
                     + 2 * SumSeq(parsed.modifiers)
            /\ last.value = MinTotal(parsed) + MaxTotal(parsed)
            /\ last.end = last.start

C9_Witness ==
    /\ last.op = "expected_value"
    /\ last.status = "ok"
    /\ last.value % 2 = 1
    /\ Len(parse_expression(input.expr).dice) = 2
    /\ parse_expression(input.expr).modifiers # <<>>

\* C10: modifier(s) is the floor of (s - 10) / 2 for every score s in 1..30,
\* rounding toward negative infinity below 10; for every s outside 1..30
\* modifier and validate_score fail with ValueError.
C10_AbilityModifier ==
    /\ (last.op = "modifier" /\ input.score \in 1..30) =>
           /\ last.status = "ok"
           /\ 2 * last.value <= input.score - 10
           /\ input.score - 10 < 2 * last.value + 2
    /\ (last.op \in {"modifier", "validate_score"} /\ input.score \notin 1..30) =>
           last.status = "ValueError"

C10_Witness ==
    /\ last.op = "modifier"
    /\ input.score = 1
    /\ last.status = "ok"
    /\ last.value = -5

\* the expression "2d6+3-1d4"
Expr_2d6_3_1d4 == <<"2", "d", "6", "+", "3", "-", "1", "d", "4">>

\* C12 as stated: parsing "2d6+3-1d4" yields the dice terms 2d6 with sign +1
\* and 1d4 with sign -1, in this order, and no modifier term.
C12_NoModifierTerms ==
    (last.op = "parse_expression" /\ input.expr = Expr_2d6_3_1d4) =>
        /\ last.status = "ok"
        /\ last.value.dice = << [count |-> 2, size |-> 6, sign |-> 1],
                                [count |-> 1, size |-> 4, sign |-> -1] >>
        /\ last.value.modifiers = <<>>

\* C12 amended: parsing "2d6+3-1d4" yields the dice terms 2d6 with sign +1
\* and 1d4 with sign -1, in this order, and one modifier term of value 3.
C12_OneModifierTerm ==
    (last.op = "parse_expression" /\ input.expr = Expr_2d6_3_1d4) =>
        /\ last.status = "ok"
        /\ last.value.dice = << [count |-> 2, size |-> 6, sign |-> 1],
                                [count |-> 1, size |-> 4, sign |-> -1] >>
        /\ last.value.modifiers = <<3>>

C12_Witness ==
    /\ last.op = "parse_expression"
    /\ input.expr = Expr_2d6_3_1d4
    /\ last.status = "ok"
    /\ Len(last.value.dice) = 2

\* C11: for a known skill name, in any letter case, skill_modifier returns
\* the modifier of the skill's ability plus twice the proficiency bonus when
\* the skill is among the expertise skills, else plus the proficiency bonus
\* when it is among the proficient skills, else plus nothing: twice, never
\* three times, for a skill in both sets.  The proficiency bonus of a level
\* in 1..20 is 2 + floor((level - 1) / 4).  An unknown skill name fails with
\* KeyError.
C11_SkillModifier ==
    /\ last.op = "skill_modifier" =>
           LET key    == Lower(input.skill)
               known  == key \in DOMAIN SKILL_ABILITIES
               expert == \E n \in input.expertise_skills : Lower(n) = key
               prof   == \E n \in input.proficient_skills : Lower(n) = key
               pb     == 2 + ((input.level - 1) \div 4)
           IN  IF known
               THEN LET score == input.abilities[SKILL_ABILITIES[key]]
                        bonus == IF expert THEN 2 * pb ELSE IF prof THEN pb ELSE 0
                    IN  /\ last.status = "ok"
                        /\ 2 * (last.value - bonus) <= score - 10
                        /\ score - 10 < 2 * (last.value - bonus) + 2
               ELSE last.status = "KeyError"
    /\ (last.op = "proficiency_bonus" /\ input.level \in 1..20) =>
           /\ last.status = "ok"
           /\ 4 * (last.value - 2) <= input.level - 1
           /\ input.level - 1 < 4 * (last.value - 2) + 4

\* the character of the test suite, asked for "STEALTH": dexterity 16, level
\* 5, stealth among both the proficient and the expertise skills
C11_Witness ==
    /\ last.op = "skill_modifier"
    /\ last.status = "ok"
    /\ input.skill # Lower(input.skill)
    /\ Lower(input.skill) = Stealth
    /\ input.abilities = TestScores
    /\ input.level = 5
    /\ \E n \in input.expertise_skills : Lower(n) = Stealth
    /\ \E n \in input.proficient_skills : Lower(n) = Stealth
    /\ last.value = 9

====
